---------------------------- MODULE Spec2Model ----------------------------
(***************************************************************************)
(* Model of the cineon-rs decoder (src/src/lib.rs, src/src/parser.rs,      *)
(* src/src/header.rs): the magic-cookie check, the byte-order strategy,    *)
(* the five section decoders, the header assembly of parse_header_inner    *)
(* and the payload extraction of parse_image.                              *)
(*                                                                         *)
(* A byte buffer is a sequence over 0..255.  A slice of the input is the   *)
(* offset of its first byte (the slice always runs to the end of the       *)
(* input).  A u32 / i32 / f32 value is its bit pattern, written as four    *)
(* base-256 digits, least significant digit first, because the values of   *)
(* a u32 do not fit the integers of the model checker.                     *)
(***************************************************************************)
EXTENDS Integers, Sequences, FiniteSets, TLC

VARIABLES
    input,              \* the byte buffer handed to the entry point
    entry,              \* "is_cineon" | "parse_header" | "parse_image"
    pc,                 \* position in the entry point's body
    i,                  \* the remaining slice: offset of its first byte
    parser,             \* the Endian strategy: "unset" | "BigEndian" | "LittleEndian"
    file_info,          \* locals of parse_header_inner, <<>> until assigned
    image_info,
    data_format_info,
    origination_info,
    film_info,          \* Option<FilmInfo>: <<>> is None, <<v>> is Some(v)
    user_info,          \* Option<Vec<u8>>: <<>> is None, <<v>> is Some(v)
    result,             \* what the entry point returned
    row_args,           \* arguments of a direct call of bytes_per_row
    row_result          \* its result

vars == << input, entry, pc, i, parser, file_info, image_info, data_format_info,
           origination_info, film_info, user_info, result, row_args, row_result >>

Byte == 0..255

-----------------------------------------------------------------------------
(* Unbounded naturals as base-256 digit sequences, least significant first *)

RECURSIVE Norm(_)
\* the digits without the leading (most significant) zeros
Norm(n) == IF n = <<>> THEN <<>>
           ELSE IF n[Len(n)] = 0 THEN Norm(SubSeq(n, 1, Len(n) - 1)) ELSE n

RECURSIVE FromInt(_)
FromInt(k) == IF k = 0 THEN <<>> ELSE <<k % 256>> \o FromInt(k \div 256)

Digit(n, k) == IF k <= Len(n) THEN n[k] ELSE 0

RECURSIVE Carry(_, _)
\* digits that may exceed 255, plus a carry, brought back to base 256
Carry(ds, c) ==
    IF ds = <<>> THEN FromInt(c)
    ELSE << (ds[1] + c) % 256 >> \o Carry(Tail(ds), (ds[1] + c) \div 256)

NatAdd(a, b) ==
    LET n == IF Len(a) > Len(b) THEN Len(a) ELSE Len(b)
    IN  Norm(Carry([k \in 1..n |-> Digit(a, k) + Digit(b, k)], 0))

RECURSIVE Sum(_, _, _)
Sum(f, lo, hi) == IF lo > hi THEN 0 ELSE f[lo] + Sum(f, lo + 1, hi)

NatMul(a, b) ==
    IF a = <<>> \/ b = <<>> THEN <<>>
    ELSE LET n == Len(a) + Len(b) - 1
             col(k) == Sum([j \in 1..Len(a) |->
                              IF k - j + 1 >= 1 /\ k - j + 1 <= Len(b)
                              THEN a[j] * b[k - j + 1] ELSE 0], 1, Len(a))
         IN  Norm(Carry([k \in 1..n |-> col(k)], 0))

RECURSIVE DivDigits(_, _, _)
\* long division by a small d, most significant digit first; r is the running remainder
DivDigits(n, d, r) ==
    IF n = <<>> THEN <<>>
    ELSE LET cur == r * 256 + n[Len(n)]
         IN  DivDigits(SubSeq(n, 1, Len(n) - 1), d, cur % d) \o << cur \div d >>

\* floor(n / d) for a small positive integer d
NatDiv(n, d) == Norm(DivDigits(n, d, 0))

\* ceil(n / d), the exact ceiling
NatCeilDiv(n, d) ==
    LET q == NatDiv(n, d)
    IN  IF NatMul(q, FromInt(d)) = Norm(n) THEN q ELSE NatAdd(q, <<1>>)

RECURSIVE ToInt(_)
\* only for values known to be small
ToInt(n) == IF n = <<>> THEN 0 ELSE n[1] + 256 * ToInt(Tail(n))

\* a < b: at the most significant digit where they differ, a has the smaller one
NatLess(a, b) ==
    \E k \in 1..(Len(a) + Len(b)) :
        /\ Digit(a, k) < Digit(b, k)
        /\ \A m \in (k + 1)..(Len(a) + Len(b)) : Digit(a, m) = Digit(b, m)

\* does the natural fit an unsigned 32-bit integer
Fits32(n) == Len(Norm(n)) <= 4

\* the natural modulo 2^32, as the four digits of a u32
Wrap32(n) == [k \in 1..4 |-> Digit(n, k)]

\* a small integer as a u32
U32(k) == Wrap32(FromInt(k))


-----------------------------------------------------------------------------
(* header.rs: constants and the closed enumerations                        *)

MAX_ELEMENTS == 8

\* 0x802A5FD7 as a u32 (digits least significant first)
MAGIC_COOKIE == << 215, 95, 42, 128 >>

\* u32::to_be_bytes: the bytes in buffer order, most significant first
to_be_bytes(v) == << v[4], v[3], v[2], v[1] >>

Interleave_from(x) ==
    CASE x = 0 -> "Pixel"
      [] x = 1 -> "Line"
      [] x = 2 -> "Channel"
      [] OTHER -> "Undefined"

\* Packing_from with the last code taken for an unknown one
Packing_from_short(x) ==
    CASE x = 0 -> "Packed"
      [] x = 1 -> "ByteLeft"
      [] x = 2 -> "ByteRight"
      [] x = 3 -> "WordLeft"
      [] x = 4 -> "WordRight"
      [] x = 5 -> "LongWordLeft"
      [] x = 6 -> "LongWordRight"
      [] OTHER -> "Undefined"

Packing_from(x) ==
    CASE x = 0 -> "Packed"
      [] x = 1 -> "ByteLeft"
      [] x = 2 -> "ByteRight"
      [] x = 3 -> "WordLeft"
      [] x = 4 -> "WordRight"
      [] x = 5 -> "LongWordLeft"
      [] x = 6 -> "LongWordRight"
      [] x = 7 -> "PackAsManyAsPossible"
      [] OTHER -> "Undefined"

Orientation_from(x) ==
    CASE x = 0 -> "TopToBottomLeftToRight"
      [] x = 1 -> "TopToBottomRightToLeft"
      [] x = 2 -> "BottomToTopLeftToRight"
      [] x = 3 -> "BottomToTopRightToLeft"
      [] x = 4 -> "LeftToRightTopToBottom"
      [] x = 5 -> "RightToLeftTopToBottom"
      [] x = 6 -> "LeftToRightBottomToTop"
      [] x = 7 -> "RightToLeftBottomToTop"
      [] OTHER -> "Undefined"

\* ImageChannel::default(): every field zero
ImageChannel_default ==
    [ designator |-> << 0, 0 >>, bit_depth |-> 0,
      pixels_per_line |-> U32(0), lines_per_element |-> U32(0),
      min_data |-> U32(0), min_quantity |-> U32(0),
      max_data |-> U32(0), max_quantity |-> U32(0) ]

-----------------------------------------------------------------------------
(* parser.rs: the byte cursor readers.  A reader result is                 *)
(* [err, i, v]: err = "Ok" with the new offset i and the value v, or the   *)
(* error.                                                                  *)

Ok(j, v) == [ err |-> "Ok", i |-> j, v |-> v ]
Err(e) == [ err |-> e, i |-> 0, v |-> << >> ]

\* `r?` followed by the rest of the function: the error leaves, the value goes on
Try(r, rest(_)) == IF r.err # "Ok" THEN r ELSE rest(r)

\* Result::map_err with a closure that ignores the error it replaces
map_err(r, e) == IF r.err = "Ok" THEN r ELSE Err(e)

\* the bytes left in the slice that starts at offset j
Remaining(buf, j) == Len(buf) - j

\* nom::bytes::complete::tag: the slice must start with the bytes t
tag(t, buf, j) ==
    IF Remaining(buf, j) >= Len(t) /\ SubSeq(buf, j + 1, j + Len(t)) = t
    THEN Ok(j + Len(t), SubSeq(buf, j + 1, j + Len(t)))
    ELSE Err("nom")

\* nom::bytes::complete::take: the first c bytes of the slice.  The count is a
\* usize (count.to_usize()), here a natural in digits: a u32 count converts
\* without loss.
take(c, buf, j) ==
    IF ~NatLess(FromInt(Remaining(buf, j)), c)
    THEN Ok(j + ToInt(Norm(c)), SubSeq(buf, j + 1, j + ToInt(Norm(c))))
    ELSE Err("nom")

\* check_magick reporting the mismatch as a short read
check_magick_as_parser_error(buf, magick) ==
    map_err(tag(to_be_bytes(magick), buf, 0), "ParserError")

check_magick(buf, magick) ==
    map_err(tag(to_be_bytes(magick), buf, 0), "NotCineonImage")

\* read_bytes handing out what is left when fewer than c bytes remain
read_bytes_available(c, buf, j) ==
    IF NatLess(FromInt(Remaining(buf, j)), c)
    THEN Ok(Len(buf), SubSeq(buf, j + 1, Len(buf)))
    ELSE map_err(take(c, buf, j), "ParserError")

read_bytes(c, buf, j) == map_err(take(c, buf, j), "ParserError")

IsCont(b) == b >= 128 /\ b <= 191

\* core::str::validations::UTF8_CHAR_WIDTH: the length a first byte announces
utf8_char_width(b) ==
    CASE b < 128 -> 1
      [] b >= 194 /\ b <= 223 -> 2
      [] b >= 224 /\ b <= 239 -> 3
      [] b >= 240 /\ b <= 244 -> 4
      [] OTHER -> 0

\* the ranges run_utf8_validation allows for the byte after a first byte
utf8_second_ok(b, c) ==
    CASE b = 224 -> c >= 160 /\ c <= 191
      [] b = 237 -> c >= 128 /\ c <= 159
      [] b = 240 -> c >= 144 /\ c <= 191
      [] b = 244 -> c >= 128 /\ c <= 143
      [] OTHER -> IsCont(c)

\* std::str::from_utf8(v).is_ok().  The validation scans the bytes in order;
\* its verdict is stated here position by position: a byte that is no
\* continuation byte starts a character, announces a width w >= 1 and is
\* followed by exactly w - 1 continuation bytes inside the slice, and every
\* continuation byte follows the first byte of its character that way.
from_utf8(v) ==
    \A k \in 1..Len(v) :
        IF IsCont(v[k])
        THEN \E d \in 1..3 :
                /\ k - d >= 1
                /\ utf8_char_width(v[k - d]) > d
                /\ \A e \in 1..(d - 1) : IsCont(v[k - e])
        ELSE LET w == utf8_char_width(v[k])
             IN  /\ w >= 1
                 /\ k + w - 1 <= Len(v)
                 /\ \A e \in 1..(w - 1) : IsCont(v[k + e])
                 /\ w >= 2 => utf8_second_ok(v[k], v[k + 1])

\* str::trim_start_matches / trim_end_matches with a char pattern
trim_start_matches(s, c) ==
    IF \A k \in 1..Len(s) : s[k] = c THEN << >>
    ELSE SubSeq(s, CHOOSE k \in 1..Len(s) :
                      s[k] # c /\ \A j \in 1..(k - 1) : s[j] = c, Len(s))

trim_end_matches(s, c) ==
    IF \A k \in 1..Len(s) : s[k] = c THEN << >>
    ELSE SubSeq(s, 1, CHOOSE k \in 1..Len(s) :
                         s[k] # c /\ \A j \in (k + 1)..Len(s) : s[j] = c)

\* str::trim_matches: the pattern is removed from both ends
\* trim_end_matches in the place of trim_matches
trim_matches_end_only(s, c) == trim_end_matches(s, c)

trim_matches(s, c) == trim_end_matches(trim_start_matches(s, c), c)

\* read_string validating what is there before it looks at the length
read_string_text_first(c, buf, j) ==
    IF NatLess(FromInt(Remaining(buf, j)), c)
    THEN IF from_utf8(SubSeq(buf, j + 1, Len(buf)))
         THEN Err("ParserError") ELSE Err("StringConversion")
    ELSE IF from_utf8(SubSeq(buf, j + 1, j + ToInt(Norm(c))))
         THEN Ok(j + ToInt(Norm(c)),
                 trim_end_matches(trim_start_matches(
                     SubSeq(buf, j + 1, j + ToInt(Norm(c))), 0), 0))
         ELSE Err("StringConversion")

read_string(c, buf, j) ==
    Try(map_err(take(c, buf, j), "ParserError"),
        LAMBDA r : IF from_utf8(r.v) THEN Ok(r.i, trim_matches(r.v, 0))
                   ELSE Err("StringConversion"))

\* nom::number::complete
be_u8(buf, j) == IF Remaining(buf, j) >= 1 THEN Ok(j + 1, buf[j + 1]) ELSE Err("nom")
le_u8(buf, j) == IF Remaining(buf, j) >= 1 THEN Ok(j + 1, buf[j + 1]) ELSE Err("nom")

be_u32(buf, j) ==
    IF Remaining(buf, j) >= 4
    THEN Ok(j + 4, << buf[j + 4], buf[j + 3], buf[j + 2], buf[j + 1] >>)
    ELSE Err("nom")

le_u32(buf, j) ==
    IF Remaining(buf, j) >= 4
    THEN Ok(j + 4, << buf[j + 1], buf[j + 2], buf[j + 3], buf[j + 4] >>)
    ELSE Err("nom")

\* nom::sequence::pair
pair(first(_, _), second(_, _), buf, j) ==
    Try(first(buf, j),
        LAMBDA a : Try(second(buf, a.i), LAMBDA b : Ok(b.i, << a.v, b.v >>)))

\* impl ReadBytes for LittleEndian / BigEndian, dispatched by Endian::run.
\* i32 and f32 values are kept as their 32-bit patterns.
read_u8(p, buf, j) == IF p = "BigEndian" THEN be_u8(buf, j) ELSE le_u8(buf, j)
read_u32(p, buf, j) == IF p = "BigEndian" THEN be_u32(buf, j) ELSE le_u32(buf, j)
read_i32(p, buf, j) == IF p = "BigEndian" THEN be_u32(buf, j) ELSE le_u32(buf, j)
read_f32(p, buf, j) == IF p = "BigEndian" THEN be_u32(buf, j) ELSE le_u32(buf, j)
read_u8_pair(p, buf, j) ==
    IF p = "BigEndian" THEN pair(be_u8, be_u8, buf, j) ELSE pair(le_u8, le_u8, buf, j)
read_f32_pair(p, buf, j) ==
    IF p = "BigEndian" THEN pair(be_u32, be_u32, buf, j) ELSE pair(le_u32, le_u32, buf, j)

\* impl From<nom::Err<..>> for CineonError, applied by `?`
from_nom(r) == map_err(r, "ParserError")

-----------------------------------------------------------------------------
(* lib.rs: a section decoder is a chain of reads, each ended by `?`.       *)
(* A section's reads are listed in wire order as <<kind, name, width>>;    *)
(* Fields runs the chain, stops at the first error, and returns the values *)
(* read, by name.                                                          *)

ReadOne(p, f, buf, j) ==
    CASE f[1] = "u8"       -> from_nom(read_u8(p, buf, j))
      [] f[1] = "u32"      -> from_nom(read_u32(p, buf, j))
      [] f[1] = "i32"      -> from_nom(read_i32(p, buf, j))
      [] f[1] = "f32"      -> from_nom(read_f32(p, buf, j))
      [] f[1] = "u8_pair"  -> from_nom(read_u8_pair(p, buf, j))
      [] f[1] = "f32_pair" -> from_nom(read_f32_pair(p, buf, j))
      [] f[1] = "string"   -> read_string(FromInt(f[3]), buf, j)
      [] f[1] = "bytes"    -> read_bytes(FromInt(f[3]), buf, j)

RECURSIVE Fields(_, _, _, _, _)
Fields(p, fs, buf, j, vals) ==
    IF fs = <<>> THEN Ok(j, vals)
    ELSE Try(ReadOne(p, fs[1], buf, j),
             LAMBDA r : Fields(p, Tail(fs), buf, r.i, (fs[1][2] :> r.v) @@ vals))

NoVals == [ x \in {} |-> 0 ]


FileInfoFields ==
    << << "u32", "image_offset", 4 >>, << "u32", "generic_size", 4 >>,
       << "u32", "industry_size", 4 >>, << "u32", "user_size", 4 >>,
       << "u32", "file_size", 4 >>, << "string", "version", 8 >>,
       << "string", "filename", 100 >>, << "string", "creation_date", 12 >>,
       << "string", "creation_time", 12 >>, << "bytes", "_", 36 >> >>

parse_file_info(buf, j, p) ==
    Try(Fields(p, FileInfoFields, buf, j, NoVals),
        LAMBDA r :
           Ok(r.i, [ magic_number |-> MAGIC_COOKIE,
                       image_offset |-> r.v.image_offset,
                       generic_size |-> r.v.generic_size,
                       industry_size |-> r.v.industry_size,
                       user_size |-> r.v.user_size,
                       file_size |-> r.v.file_size,
                       version |-> r.v.version,
                       filename |-> r.v.filename,
                       creation_date |-> r.v.creation_date,
                       creation_time |-> r.v.creation_time ]))

ImageInfoHead ==
    << << "u8", "image_orientation", 1 >>, << "u8", "number_of_elements", 1 >>,
       << "bytes", "_", 2 >> >>

\* ChannelFields with the two dimensions in the other order
ChannelFields_swapped ==
    << << "u8_pair", "designator", 2 >>, << "u8", "bit_depth", 1 >>,
       << "bytes", "_", 1 >>, << "u32", "lines_per_element", 4 >>,
       << "u32", "pixels_per_line", 4 >>, << "f32", "min_data", 4 >>,
       << "f32", "min_quantity", 4 >>, << "f32", "max_data", 4 >>,
       << "f32", "max_quantity", 4 >> >>

ChannelFields ==
    << << "u8_pair", "designator", 2 >>, << "u8", "bit_depth", 1 >>,
       << "bytes", "_", 1 >>, << "u32", "pixels_per_line", 4 >>,
       << "u32", "lines_per_element", 4 >>, << "f32", "min_data", 4 >>,
       << "f32", "min_quantity", 4 >>, << "f32", "max_data", 4 >>,
       << "f32", "max_quantity", 4 >> >>

ImageInfoTail ==
    << << "f32_pair", "white_point", 8 >>, << "f32_pair", "red_primary", 8 >>,
       << "f32_pair", "green_primary", 8 >>, << "f32_pair", "blue_primary", 8 >>,
       << "string", "label_text", 200 >>, << "bytes", "_", 28 >> >>

RECURSIVE ChannelLoop(_, _, _, _, _)
\* for item in channel.iter_mut(): entry k is read from the slice `state`
ChannelLoop(p, buf, state, k, channel) ==
    IF k > MAX_ELEMENTS THEN Ok(state, channel)
    ELSE Try(Fields(p, ChannelFields, buf, state, NoVals),
             LAMBDA r :
                ChannelLoop(p, buf, r.i, k + 1,
                    [ channel EXCEPT ![k] =
                        [ designator |-> r.v.designator,
                          bit_depth |-> r.v.bit_depth,
                          pixels_per_line |-> r.v.pixels_per_line,
                          lines_per_element |-> r.v.lines_per_element,
                          min_data |-> r.v.min_data,
                          min_quantity |-> r.v.min_quantity,
                          max_data |-> r.v.max_data,
                          max_quantity |-> r.v.max_quantity ] ]))

parse_image_info(buf, j, p) ==
    Try(Fields(p, ImageInfoHead, buf, j, NoVals),
        LAMBDA h :
    Try(ChannelLoop(p, buf, h.i, 1, [ k \in 1..MAX_ELEMENTS |-> ImageChannel_default ]),
        LAMBDA c :
    Try(Fields(p, ImageInfoTail, buf, c.i, NoVals),
        LAMBDA t :
           Ok(t.i, [ image_orientation |-> Orientation_from(h.v.image_orientation),
                     number_of_elements |-> h.v.number_of_elements,
                     channel |-> c.v,
                     white_point |-> t.v.white_point,
                     red_primary |-> t.v.red_primary,
                     green_primary |-> t.v.green_primary,
                     blue_primary |-> t.v.blue_primary,
                     label_text |-> t.v.label_text ]))))

DataFormatFields ==
    << << "u8", "interleave", 1 >>, << "u8", "packing", 1 >>,
       << "u8", "data_sign", 1 >>, << "u8", "image_sense", 1 >>,
       << "u32", "line_padding", 4 >>, << "u32", "channel_padding", 4 >>,
       << "bytes", "_", 20 >> >>

parse_data_format_info(buf, j, p) ==
    Try(Fields(p, DataFormatFields, buf, j, NoVals),
        LAMBDA r :
           Ok(r.i, [ interleave |-> Interleave_from(r.v.interleave),
                       packing |-> Packing_from(r.v.packing),
                       data_sign |-> r.v.data_sign # 0,
                       image_sense |-> r.v.image_sense # 0,
                       line_padding |-> << r.v.line_padding >>,
                       channel_padding |-> << r.v.channel_padding >> ]))

OriginationFields ==
    << << "i32", "x_offset", 4 >>, << "i32", "y_offset", 4 >>,
       << "string", "source_image_file_name", 100 >>,
       << "string", "source_date", 12 >>, << "string", "source_time", 12 >>,
       << "string", "input_device", 64 >>,
       << "string", "input_device_model_number", 32 >>,
       << "string", "input_device_serial_number", 32 >>,
       << "f32", "x_device_pitch", 4 >>, << "f32", "y_device_pitch", 4 >>,
       << "f32", "gamma", 4 >>, << "bytes", "_", 40 >> >>

parse_origination_info(buf, j, p) ==
    Try(Fields(p, OriginationFields, buf, j, NoVals),
        LAMBDA r :
           Ok(r.i, [ x_offset |-> r.v.x_offset,
                       y_offset |-> r.v.y_offset,
                       source_image_file_name |-> r.v.source_image_file_name,
                       source_date |-> r.v.source_date,
                       source_time |-> r.v.source_time,
                       input_device |-> r.v.input_device,
                       input_device_model_number |-> r.v.input_device_model_number,
                       input_device_serial_number |-> r.v.input_device_serial_number,
                       x_device_pitch |-> r.v.x_device_pitch,
                       y_device_pitch |-> r.v.y_device_pitch,
                       gamma |-> r.v.gamma ]))

FilmInfoFields ==
    << << "u8", "film_manufacturing_id_code", 1 >>, << "u8", "film_type", 1 >>,
       << "u8", "perfs_offset", 1 >>, << "bytes", "_", 1 >>,
       << "u32", "prefix", 4 >>, << "u32", "count", 4 >>,
       << "string", "format", 32 >>, << "u32", "frame_position", 4 >>,
       << "f32", "frame_rate", 4 >>, << "string", "frame_id", 32 >>,
       << "string", "slate_info", 200 >>, << "bytes", "_", 740 >> >>

parse_film_info(buf, j, p) ==
    Try(Fields(p, FilmInfoFields, buf, j, NoVals),
        LAMBDA r :
           Ok(r.i, [ film_manufacturing_id_code |-> r.v.film_manufacturing_id_code,
                       film_type |-> r.v.film_type,
                       perfs_offset |-> r.v.perfs_offset,
                       prefix |-> r.v.prefix,
                       count |-> r.v.count,
                       format |-> r.v.format,
                       frame_position |-> r.v.frame_position,
                       frame_rate |-> r.v.frame_rate,
                       frame_id |-> r.v.frame_id,
                       slate_info |-> r.v.slate_info ]))

-----------------------------------------------------------------------------
(* lib.rs: u32 arithmetic.  A u32 expression is [v, ovf]: its value modulo *)
(* 2^32 and whether an operation in it left the u32 range.  With overflow  *)
(* checks compiled in (the dev profile) the first overflow aborts the      *)
(* call; without them (the release profile) the value wraps.               *)

Lit(k) == [ v |-> U32(k), ovf |-> FALSE ]
Val(x) == [ v |-> x, ovf |-> FALSE ]

\* the exact result e of an operation on x and y, as a u32 expression
Checked(e, x, y) == [ v |-> Wrap32(e), ovf |-> x.ovf \/ y.ovf \/ ~Fits32(e) ]

mul32(x, y) == Checked(NatMul(Norm(x.v), Norm(y.v)), x, y)

add32(x, y) == Checked(NatAdd(Norm(x.v), Norm(y.v)), x, y)

\* div32 rounding up
div32_ceil(x, d) == [ v |-> Wrap32(NatCeilDiv(x.v, d)), ovf |-> x.ovf ]

\* division by a small literal never overflows
div32(x, d) == [ v |-> Wrap32(NatDiv(x.v, d)), ovf |-> x.ovf ]

\* 4 * ((samples_per_pixel * width * bit_depth + 31) / 32), the arm of 1 | 8 | 32,
\* of the unpadded 10 and 12, and of `_`
row_general(s, d, w) ==
    mul32(Lit(4), div32(add32(mul32(mul32(Val(s), Val(w)), Val(d)), Lit(31)), 32))

bytes_per_row(samples_per_pixel, bit_depth, width, pad) ==
    CASE bit_depth \in { U32(1), U32(8), U32(32) } ->
               row_general(samples_per_pixel, bit_depth, width)
          [] bit_depth = U32(10) ->
               IF ~pad THEN row_general(samples_per_pixel, bit_depth, width)
               ELSE mul32(Lit(4),
                      div32(add32(mul32(Lit(32),
                                        div32(add32(mul32(Val(samples_per_pixel), Val(width)),
                                                    Lit(2)), 3)),
                                  Lit(31)), 32))
          [] bit_depth = U32(12) ->
               IF ~pad THEN row_general(samples_per_pixel, bit_depth, width)
               ELSE mul32(Lit(2),
                      div32(add32(mul32(mul32(Lit(16), Val(samples_per_pixel)), Val(width)),
                                  Lit(15)), 16))
          [] bit_depth = U32(16) ->
               mul32(Lit(2),
                 div32(add32(mul32(mul32(Val(samples_per_pixel), Val(width)), Val(bit_depth)),
                             Lit(8)), 16))
          [] bit_depth = U32(64) ->
               mul32(Lit(8),
                 div32(add32(mul32(mul32(Val(samples_per_pixel), Val(width)), Val(bit_depth)),
                             Lit(63)), 64))
          [] OTHER -> row_general(samples_per_pixel, bit_depth, width)

is_big_endian(magick) ==
    magick[1] = 128 /\ magick[2] = 42 /\ magick[3] = 95 /\ magick[4] = 215

\* the guard of the film-info branch (lib.rs:118) and of the user-info branch
\* (lib.rs:126): image_offset > 2048 && user_size != 0
\* the guard without the test of image_offset
user_info_guard_size_only(fi) == fi.user_size # U32(0)

film_info_guard(fi) == NatLess(U32(2048), fi.image_offset) /\ fi.user_size # U32(0)
user_info_guard(fi) == NatLess(U32(2048), fi.image_offset) /\ fi.user_size # U32(0)


-----------------------------------------------------------------------------
(* The inputs: byte buffers laid out as a Cineon file, cut to a length.    *)

MaxUserSize == 2      \* user_size ranges over 0..MaxUserSize
MaxPayload == 5       \* up to MaxPayload bytes follow the 2048-byte header

Zeros(n) == [ k \in 1..n |-> 0 ]
Fill(n, b) == [ k \in 1..n |-> b ]

\* the bytes after the fixed header: each differs from its neighbours
Trail(n) == [ k \in 1..n |-> 16 + k ]

\* a u32 written in the file's byte order
Enc(order, v) == IF order = "BigEndian" THEN to_be_bytes(v) ELSE v

CookieBE == << 128, 42, 95, 215 >>
CookieLE == << 215, 95, 42, 128 >>
CookieBad == << 128, 42, 95, 216 >>

\* 2^29, 2^31 and 2^32 - 1 as u32
Pow29 == << 0, 0, 0, 32 >>
Pow31 == << 0, 0, 0, 128 >>
MaxU32 == << 255, 255, 255, 255 >>

TextV10 == << 118, 49, 46, 48, 0, 0, 0, 0 >>          \* "v1.0" and padding
TextLead == << 0, 0, 118, 49, 0, 46, 48, 0 >>         \* zeros before and inside
TextUtf8 == << 195, 169, 226, 130, 172, 0, 0, 0 >>    \* two multi-byte characters
TextBad == << 118, 49, 255, 48, 0, 0, 0, 0 >>         \* 0xFF is never valid
TextCut == << 118, 49, 46, 48, 0, 0, 0, 195 >>        \* a character cut short

\* the 1024-byte film-info slot: all zero, valid text, or invalid text in `format`
FilmSlot(kind) ==
    CASE kind = "zero" -> Zeros(1024)
      [] kind = "text" -> << 3, 2, 1, 9 >> \o Zeros(8) \o << 0, 51, 53, 109, 109 >>
                          \o Zeros(27) \o Zeros(8) \o << 0, 102, 49 >> \o Zeros(29)
                          \o << 115, 108 >> \o Zeros(198) \o Zeros(740)
      [] kind = "bad"  -> << 3, 2, 1, 9 >> \o Zeros(8) \o << 255, 254 >> \o Zeros(30)
                          \o Zeros(980)

Params0 ==
    [ cookie |-> CookieBE, image_offset |-> U32(2048), user_size |-> U32(0),
      version |-> Zeros(8), device |-> Zeros(8), orientation |-> 0, n_elems |-> 1,
      depth |-> 8, ppl |-> U32(2), lpe |-> U32(1), chan_fill |-> 0,
      interleave |-> 0, packing |-> 0, film |-> "zero", len |-> 2048 ]

\* the whole file for the parameters, before it is cut to p.len
Layout(p) ==
    LET order == IF p.cookie = CookieLE THEN "LittleEndian" ELSE "BigEndian"
    IN  p.cookie \o Enc(order, p.image_offset) \o Zeros(8)
        \o Enc(order, p.user_size) \o Zeros(4) \o p.version \o Zeros(160)
        \o << p.orientation, p.n_elems, 0, 0 >>
        \o << 0, 0, p.depth, 0 >> \o Enc(order, p.ppl) \o Enc(order, p.lpe) \o Zeros(16)
        \o Fill(28 * 7, p.chan_fill)
        \o Zeros(260) \o << p.interleave, p.packing >> \o Zeros(30)
        \o Zeros(132) \o p.device \o Zeros(172)
        \o FilmSlot(p.film)
        \o Trail(MaxUserSize + MaxPayload + 2)

MakeInput(p) == SubSeq(Layout(p), 1, p.len)

\* where a read can be cut short: section and field boundaries and their neighbours
CutPoints ==
    { 0, 3, 4, 5, 23, 24, 31, 32, 131, 132, 156, 191, 192, 195, 196, 197, 224,
      420, 679, 680, 712, 1023, 1024, 1036, 2047 }

TruncationInputs ==
    { [ Params0 EXCEPT !.cookie = c, !.version = t, !.len = n ] :
        c \in { CookieBE, CookieLE, CookieBad },
        t \in { Zeros(8), TextBad },
        n \in CutPoints }

TextInputs ==
    { [ Params0 EXCEPT !.version = t, !.device = d, !.len = 2048 ] :
        t \in { Zeros(8), TextV10, TextLead, TextUtf8, TextBad, TextCut },
        d \in { Zeros(8), TextV10, TextLead, TextBad } }

SectionInputs ==
    { [ Params0 EXCEPT !.cookie = c, !.image_offset = o, !.user_size = U32(u),
                       !.film = f, !.chan_fill = g, !.len = 2048 + n ] :
        c \in { CookieBE, CookieLE },
        o \in { U32(0), U32(2048), U32(2049), MaxU32 },
        u \in 0..MaxUserSize,
        f \in { "zero", "text", "bad" },
        g \in { 0, 1 },
        n \in 0..(MaxUserSize + MaxPayload) }

\* the three enumeration codes, in and out of range, in whole and cut headers
EnumCodes == { 0, 1, 2, 3, 7, 8, 255 }

EnumInputs ==
    { [ Params0 EXCEPT !.orientation = o, !.interleave = l, !.packing = k,
                       !.len = n ] :
        o \in EnumCodes, l \in EnumCodes, k \in EnumCodes,
        n \in { 193, 681, 2047, 2048 } }

ImageInputs ==
    { [ Params0 EXCEPT !.n_elems = e, !.depth = d, !.ppl = w, !.lpe = h,
                       !.len = 2048 + n ] :
        e \in { 0, 1, 3, 9 },
        d \in { 8, 10, 12, 16, 64, 7 },
        w \in { U32(1), U32(2), U32(3), Pow29, MaxU32 },
        h \in { U32(0), U32(1), U32(2), Pow31 },
        n \in 0..MaxPayload }

-----------------------------------------------------------------------------
(* The entry points of impl Cineon, as steps over the locals               *)

Pending == [ status |-> "Pending", err |-> "", value |-> FALSE,
             header |-> << >>, pixels |-> << >> ]
Failed(e) == [ Pending EXCEPT !.status = "Err", !.err = e ]
Aborted == [ Pending EXCEPT !.status = "Panic" ]

Start(buf, e) ==
    /\ input = buf
    /\ entry = e
    /\ pc = "start"
    /\ i = 0
    /\ parser = "unset"
    /\ file_info = << >>
    /\ image_info = << >>
    /\ data_format_info = << >>
    /\ origination_info = << >>
    /\ film_info = << >>
    /\ user_info = << >>
    /\ result = Pending
    /\ row_args = << >>
    /\ row_result = << >>

Init ==
    \/ \E p \in TruncationInputs, e \in { "is_cineon", "parse_header", "parse_image" } :
          Start(MakeInput(p), e)
    \/ \E p \in TextInputs : Start(MakeInput(p), "parse_header")
    \/ \E p \in SectionInputs, e \in { "parse_header", "parse_image" } :
          Start(MakeInput(p), e)
    \/ \E p \in ImageInputs : Start(MakeInput(p), "parse_image")
    \/ \E p \in EnumInputs : Start(MakeInput(p), "parse_header")

Locals == << file_info, image_info, data_format_info, origination_info,
             film_info, user_info >>

\* `?`: the error leaves the entry point
Raise(e) ==
    /\ result' = Failed(e)
    /\ pc' = "done"

\* `let (i, x) = r?;`: the slice moves on and the body continues at `to`
Advance(r, to) ==
    IF r.err # "Ok"
    THEN Raise(r.err) /\ UNCHANGED i
    ELSE i' = r.i /\ pc' = to /\ UNCHANGED result

\* what the local bound by `let (i, x) = r?;` holds afterwards
Bound(r, old) == IF r.err = "Ok" THEN << r.v >> ELSE old

\* is_cineon: check_magick(input, MAGIC_COOKIE).is_ok()
IsCineon ==
    /\ entry = "is_cineon"
    /\ pc = "start"
    /\ result' = [ Pending EXCEPT !.status = "Ok",
                                  !.value = (check_magick(input, MAGIC_COOKIE).err = "Ok") ]
    /\ pc' = "done"
    /\ UNCHANGED << input, entry, i, parser, Locals, row_args, row_result >>

\* lib.rs:109-113: the strategy chosen from the four bytes check_magick matched
select_parser(magick_number) ==
    IF is_big_endian(magick_number) THEN "BigEndian" ELSE "LittleEndian"

\* parse_header_inner, lib.rs:108-113
CheckMagick ==
    /\ entry \in { "parse_header", "parse_image" }
    /\ pc = "start"
    /\ LET r == check_magick(input, MAGIC_COOKIE)
       IN  /\ Advance(r, "file_info")
           /\ parser' = IF r.err = "Ok" THEN select_parser(r.v) ELSE parser
    /\ UNCHANGED << input, entry, Locals, row_args, row_result >>

\* lib.rs:114
ParseFileInfo ==
    /\ pc = "file_info"
    /\ LET r == parse_file_info(input, i, parser)
       IN  Advance(r, "image_info") /\ file_info' = Bound(r, file_info)
    /\ UNCHANGED << input, entry, parser, image_info, data_format_info,
                    origination_info, film_info, user_info, row_args, row_result >>

\* lib.rs:115
ParseImageInfo ==
    /\ pc = "image_info"
    /\ LET r == parse_image_info(input, i, parser)
       IN  Advance(r, "data_format_info") /\ image_info' = Bound(r, image_info)
    /\ UNCHANGED << input, entry, parser, file_info, data_format_info,
                    origination_info, film_info, user_info, row_args, row_result >>

\* lib.rs:116
ParseDataFormatInfo ==
    /\ pc = "data_format_info"
    /\ LET r == parse_data_format_info(input, i, parser)
       IN  Advance(r, "origination_info") /\ data_format_info' = Bound(r, data_format_info)
    /\ UNCHANGED << input, entry, parser, file_info, image_info,
                    origination_info, film_info, user_info, row_args, row_result >>

\* lib.rs:117
ParseOriginationInfo ==
    /\ pc = "origination_info"
    /\ LET r == parse_origination_info(input, i, parser)
       IN  Advance(r, "film_info") /\ origination_info' = Bound(r, origination_info)
    /\ UNCHANGED << input, entry, parser, file_info, image_info,
                    data_format_info, film_info, user_info, row_args, row_result >>

\* lib.rs:118-120: the film-info section is declared present
ParseFilmInfo ==
    /\ pc = "film_info"
    /\ film_info_guard(file_info[1])
    /\ LET r == parse_film_info(input, i, parser)
       IN  Advance(r, "user_info") /\ film_info' = Bound(r, film_info)
    /\ UNCHANGED << input, entry, parser, file_info, image_info,
                    data_format_info, origination_info, user_info, row_args, row_result >>

\* lib.rs:121-125: otherwise the 1024-byte slot is skipped, film_info is None
SkipFilmInfo ==
    /\ pc = "film_info"
    /\ ~film_info_guard(file_info[1])
    /\ Advance(read_bytes(FromInt(1024), input, i), "user_info")
    /\ UNCHANGED << input, entry, parser, Locals, row_args, row_result >>

\* lib.rs:126-128: user_size bytes are read as the user info
ReadUserInfo ==
    /\ pc = "user_info"
    /\ user_info_guard(file_info[1])
    /\ LET r == read_bytes(file_info[1].user_size, input, i)
       IN  Advance(r, "assembled") /\ user_info' = Bound(r, user_info)
    /\ UNCHANGED << input, entry, parser, file_info, image_info,
                    data_format_info, origination_info, film_info, row_args, row_result >>

\* lib.rs:129-131: user_info is None
NoUserInfo ==
    /\ pc = "user_info"
    /\ ~user_info_guard(file_info[1])
    /\ pc' = "assembled"
    /\ UNCHANGED << input, entry, i, parser, Locals, result, row_args, row_result >>

\* lib.rs:132-139
Header ==
    [ file_info |-> file_info[1],
      image_info |-> image_info[1],
      data_format_info |-> data_format_info[1],
      origination_info |-> origination_info[1],
      film_info |-> film_info,
      user_info |-> user_info ]

\* parse_header: self.parse_header_inner(input).map(|(_, v)| v)
ReturnHeader ==
    /\ entry = "parse_header"
    /\ pc = "assembled"
    /\ result' = [ Pending EXCEPT !.status = "Ok", !.header = << Header >> ]
    /\ pc' = "done"
    /\ UNCHANGED << input, entry, i, parser, Locals, row_args, row_result >>

\* parse_image, lib.rs:54-68: 1 sample for one element, 3 otherwise
samples_of(number_of_elements) == IF number_of_elements = 1 THEN U32(1) ELSE U32(3)

\* parse_image, lib.rs:52-70: the payload size, as a u32 expression
total_bytes(h) ==
    mul32(Val(h.image_info.channel[1].lines_per_element),
          bytes_per_row(samples_of(h.image_info.number_of_elements),
                        U32(h.image_info.channel[1].bit_depth),
                        h.image_info.channel[1].pixels_per_line, TRUE))

\* lib.rs:71-76: the pixels are read and returned with the header
Deliver(r) ==
    IF r.err # "Ok"
    THEN Raise(r.err) /\ UNCHANGED i
    ELSE /\ result' = [ Pending EXCEPT !.status = "Ok", !.header = << Header >>,
                                       !.pixels = << r.v >> ]
         /\ i' = r.i
         /\ pc' = "done"

\* lib.rs:70-76.  An overflow in the size aborts the call when overflow checks
\* are compiled in (the dev profile) and wraps when they are not (release).
Extract(t, overflow_checks) ==
    IF t.ovf /\ overflow_checks
    THEN result' = Aborted /\ pc' = "done" /\ UNCHANGED i
    ELSE Deliver(read_bytes(t.v, input, i))

\* parse_image, lib.rs:52-76
ReadPixels ==
    /\ entry = "parse_image"
    /\ pc = "assembled"
    /\ \E overflow_checks \in BOOLEAN : Extract(total_bytes(Header), overflow_checks)
    /\ UNCHANGED << input, entry, parser, Locals, row_args, row_result >>

Next ==
    \/ IsCineon
    \/ CheckMagick
    \/ ParseFileInfo
    \/ ParseImageInfo
    \/ ParseDataFormatInfo
    \/ ParseOriginationInfo
    \/ ParseFilmInfo
    \/ SkipFilmInfo
    \/ ReadUserInfo
    \/ NoUserInfo
    \/ ReturnHeader
    \/ ReadPixels

Spec == Init /\ [][Next]_vars

-----------------------------------------------------------------------------
(* Direct calls of bytes_per_row, for the claims about the row size alone  *)

RowWidths ==
    { U32(0), U32(1), U32(2), U32(3), U32(4), U32(5), U32(1920), Pow29, MaxU32 }

InitRow ==
    /\ \E s \in { 1, 3 }, d \in { 1, 8, 10, 12, 16, 32, 64, 7, 24 },
          w \in RowWidths, pad \in BOOLEAN :
          row_args = [ samples |-> U32(s), depth |-> U32(d), width |-> w, pad |-> pad ]
    /\ row_result = << >>
    /\ input = << >>
    /\ entry = "bytes_per_row"
    /\ pc = "start"
    /\ i = 0
    /\ parser = "unset"
    /\ file_info = << >>
    /\ image_info = << >>
    /\ data_format_info = << >>
    /\ origination_info = << >>
    /\ film_info = << >>
    /\ user_info = << >>
    /\ result = Pending

\* what a call returns: the value, unless an overflow aborts it
Returned(r, overflow_checks) ==
    IF r.ovf /\ overflow_checks
    THEN [ status |-> "Panic", v |-> U32(0) ]
    ELSE [ status |-> "Ok", v |-> r.v ]

CallBytesPerRow ==
    /\ entry = "bytes_per_row"
    /\ pc = "start"
    /\ \E overflow_checks \in BOOLEAN :
          row_result' = << Returned(bytes_per_row(row_args.samples, row_args.depth,
                                                  row_args.width, row_args.pad),
                                    overflow_checks) >>
    /\ pc' = "done"
    /\ UNCHANGED << input, entry, i, parser, Locals, result, row_args >>

NextRow == CallBytesPerRow

SpecRow == InitRow /\ [][NextRow]_vars

-----------------------------------------------------------------------------
(* The claims.  What a claim expects is written from the file format, not  *)
(* from the decoder: offsets are byte offsets into the input.              *)

Returned_Header == entry \in { "parse_header", "parse_image" } /\ result.status = "Ok"

First4(buf) == IF Len(buf) >= 4 THEN SubSeq(buf, 1, 4) ELSE << >>

BigEndianCookie == << 128, 42, 95, 215 >>        \* 80 2A 5F D7
LittleEndianCookie == << 215, 95, 42, 128 >>     \* D7 5F 2A 80

\* the u32 at byte offset `off`, read in either byte order
WordBE(buf, off) == << buf[off + 4], buf[off + 3], buf[off + 2], buf[off + 1] >>
WordLE(buf, off) == << buf[off + 1], buf[off + 2], buf[off + 3], buf[off + 4] >>

\* a u32 greater than 2048
Above2048(v) == v[4] > 0 \/ v[3] > 0 \/ v[2] * 256 + v[1] > 2048

\* the presence condition of film info and user info
SectionsDeclared(fi) == Above2048(fi.image_offset) /\ fi.user_size # << 0, 0, 0, 0 >>

\* C1: is_cineon(buf) is true exactly when buf has at least 4 bytes and they are
\* the magic cookie in big-endian or in little-endian order; later bytes do not
\* matter.
C1_IsCineonEitherOrder ==
    (entry = "is_cineon" /\ pc = "done") =>
        result.value = (First4(input) \in { BigEndianCookie, LittleEndianCookie })

\* C2: the byte order is chosen from the first 4 bytes and used for every
\* multi-byte field: big-endian cookie, big-endian fields; little-endian cookie,
\* little-endian fields; anything else fails with NotCineonImage.
C2_ByteOrderFromCookie ==
    (entry \in { "parse_header", "parse_image" } /\ pc # "start") =>
        CASE First4(input) = BigEndianCookie ->
                 /\ parser = "BigEndian"
                 /\ file_info # << >> =>
                      /\ file_info[1].image_offset = WordBE(input, 4)
                      /\ file_info[1].user_size = WordBE(input, 16)
                 /\ image_info # << >> =>
                      /\ image_info[1].channel[1].pixels_per_line = WordBE(input, 200)
                      /\ image_info[1].channel[1].lines_per_element = WordBE(input, 204)
          [] First4(input) = LittleEndianCookie ->
                 /\ parser = "LittleEndian"
                 /\ file_info # << >> =>
                      /\ file_info[1].image_offset = WordLE(input, 4)
                      /\ file_info[1].user_size = WordLE(input, 16)
                 /\ image_info # << >> =>
                      /\ image_info[1].channel[1].pixels_per_line = WordLE(input, 200)
                      /\ image_info[1].channel[1].lines_per_element = WordLE(input, 204)
          [] OTHER -> result = Failed("NotCineonImage")

\* the buffer of C3: little-endian cookie, every field zero except
\* number_of_elements = 1, pixels_per_line = 2, lines_per_element = 1,
\* bit_depth = 8, image_offset = 2048, and 4 payload bytes after the header
MinimalLittleEndianFile ==
    LittleEndianCookie \o << 0, 8, 0, 0 >> \o Zeros(184)
    \o << 0, 1, 0, 0 >> \o << 0, 0, 8, 0 >> \o << 2, 0, 0, 0 >> \o << 1, 0, 0, 0 >>
    \o Zeros(1840) \o << 17, 18, 19, 20 >>

\* C3: parse_image of the minimal little-endian file succeeds and returns exactly
\* its 4 trailing bytes as the pixels.
C3_MinimalLittleEndianImage ==
    (entry = "parse_image" /\ pc = "done" /\ input = MinimalLittleEndianFile) =>
        /\ result.status = "Ok"
        /\ result.pixels = << << 17, 18, 19, 20 >> >>

\* C4: in a returned header film_info and user_info are both present or both
\* absent, present exactly when image_offset > 2048 and user_size != 0; when
\* they are absent the 1024 bytes of the film-info slot are skipped unread, so
\* the decode succeeds whatever they hold.
C4_FilmAndUserTogether ==
    /\ Returned_Header =>
         /\ (result.header[1].film_info # << >>)
               = SectionsDeclared(result.header[1].file_info)
         /\ (result.header[1].user_info # << >>)
               = SectionsDeclared(result.header[1].file_info)
    /\ ( /\ entry = "parse_header"
         /\ pc = "done"
         /\ origination_info # << >>
         /\ ~SectionsDeclared(file_info[1])
         /\ Len(input) >= 2048 ) => result.status = "Ok"

\* a header is returned without film info although the slot holds bytes that
\* are no valid text
C4_Witness ==
    /\ Returned_Header
    /\ result.header[1].film_info = << >>
    /\ result.header[1].user_info = << >>
    /\ input[1037] = 255

FileInfoText == << << 24, 8 >>, << 32, 100 >>, << 132, 12 >>, << 144, 12 >> >>

\* the fixed size before the first channel: cookie, File Information, and the
\* orientation, element count and 2 reserved bytes of Image Information
PreChannelSize == 4 + 188 + 4

\* the error a buffer shorter than PreChannelSize ends with
ShortInputError(buf) ==
    IF First4(buf) # BigEndianCookie THEN "NotCineonImage"
    ELSE IF \E f \in 1..Len(FileInfoText) :
               /\ FileInfoText[f][1] + FileInfoText[f][2] <= Len(buf)
               /\ ~from_utf8(SubSeq(buf, FileInfoText[f][1] + 1,
                                    FileInfoText[f][1] + FileInfoText[f][2]))
    THEN "StringConversion"
    ELSE "ParserError"

\* C6, as claimed: every input shorter than the pre-channel header size makes
\* parse_header fail with ParserError.
C6_ShortInputIsParserError ==
    (entry = "parse_header" /\ pc = "done" /\ Len(input) < PreChannelSize) =>
        result = Failed("ParserError")

\* C6, amended: every input shorter than the pre-channel header size makes
\* parse_header fail, without a panic and without a header: with NotCineonImage
\* when the magic check rejects it, with StringConversion when a text field that
\* lies wholly inside the input is not valid text, with ParserError otherwise.
C6_ShortInputFails ==
    (entry = "parse_header" /\ pc = "done" /\ Len(input) < PreChannelSize) =>
        /\ result.status = "Err"
        /\ result.header = << >>
        /\ result.err = ShortInputError(input)

C6_Witness ==
    /\ entry = "parse_header"
    /\ pc = "done"
    /\ Len(input) = PreChannelSize - 1
    /\ result = Failed("ParserError")

\* the row size as the exact natural the formulas give, from sw = samples * width
ExactRowOf(sw, d, pad) ==
    CASE d = U32(10) /\ pad ->
             NatMul(<< 4 >>, NatCeilDiv(NatMul(<< 32 >>, NatCeilDiv(sw, 3)), 32))
      [] d = U32(12) /\ pad ->
             NatMul(<< 2 >>, NatCeilDiv(NatMul(<< 16 >>, sw), 16))
      [] d = U32(64) -> NatMul(<< 8 >>, NatCeilDiv(NatMul(sw, Norm(d)), 64))
      [] OTHER -> NatMul(<< 4 >>, NatCeilDiv(NatMul(sw, Norm(d)), 32))

ExactRow(a) == ExactRowOf(NatMul(Norm(a.samples), Norm(a.width)), a.depth, a.pad)

\* the payload size L of C7: lines_per_element times the row size bytes_per_row
\* returns, as an exact natural
PayloadSize(h) ==
    NatMul(Norm(h.image_info.channel[1].lines_per_element),
           Norm(bytes_per_row(samples_of(h.image_info.number_of_elements),
                              U32(h.image_info.channel[1].bit_depth),
                              h.image_info.channel[1].pixels_per_line, TRUE).v))

\* where the header region ends
HeaderEnd(fi) == 2048 + (IF SectionsDeclared(fi) THEN ToInt(fi.user_size) ELSE 0)

\* what C7 expects of the step that extracts the pixels, L being the payload size
PayloadStep(L) ==
    IF ~NatLess(FromInt(Len(input) - i), L)
    THEN /\ result'.status = "Ok"
         /\ i = HeaderEnd(file_info[1])
         /\ result'.pixels = << SubSeq(input, i + 1, i + ToInt(L)) >>
    ELSE result' = Failed("ParserError")

\* C7: once the header is decoded, parse_image succeeds exactly when at least
\* L = lines_per_element * bytes_per_row(samples, bit_depth, pixels_per_line,
\* padded) bytes remain; the pixels are then the L bytes after the header region
\* (offset 2048 + user_size, or 2048 without user info); with fewer bytes it
\* fails with ParserError.
C7_PayloadExactlyL ==
    [][ (entry = "parse_image" /\ pc = "assembled") => PayloadStep(PayloadSize(Header)) ]_vars

\* C8: bytes_per_row returns the value of the ceiling-division formulas:
\* 4*ceil(s*w*d/32) for depth 1, 8, 32, for unpadded 10 and 12 and for every
\* other depth outside {16, 64}; 4*ceil(32*ceil(s*w/3)/32) for padded 10;
\* 2*ceil(16*s*w/16) for padded 12; 8*ceil(s*w*d/64) for depth 64; so 7680 for
\* (3, 10, 1920, padded) and 4 for (1, 8, 4).
C8_RowSizeFormulas ==
    (entry = "bytes_per_row" /\ pc = "done" /\ row_args.depth # U32(16)) =>
        /\ row_result[1].status = "Ok"
        /\ Norm(row_result[1].v) = ExactRow(row_args)
        /\ (row_args = [ samples |-> U32(3), depth |-> U32(10),
                         width |-> U32(1920), pad |-> TRUE ])
              => row_result[1].v = U32(7680)
        /\ (row_args.samples = U32(1) /\ row_args.depth = U32(8)
              /\ row_args.width = U32(4)) => row_result[1].v = U32(4)

\* the positions of the non-zero bytes of a slot
NonZero(s) == { k \in 1..Len(s) : s[k] # 0 }
FirstOf(S) == CHOOSE k \in S : \A m \in S : k <= m
LastOf(S) == CHOOSE k \in S : \A m \in S : k >= m

\* a slot without the zero bytes at its end / at both ends
StripTrailingZeros(s) ==
    IF NonZero(s) = {} THEN << >> ELSE SubSeq(s, 1, LastOf(NonZero(s)))
StripZeros(s) ==
    IF NonZero(s) = {} THEN << >>
    ELSE SubSeq(s, FirstOf(NonZero(s)), LastOf(NonZero(s)))

\* the text fields of header h are their slots of the input, stripped by strip
TextFieldsAre(h, strip(_)) ==
    /\ h.file_info.version = strip(SubSeq(input, 25, 32))
    /\ h.file_info.filename = strip(SubSeq(input, 33, 132))
    /\ h.file_info.creation_date = strip(SubSeq(input, 133, 144))
    /\ h.image_info.label_text = strip(SubSeq(input, 453, 652))
    /\ h.origination_info.input_device = strip(SubSeq(input, 845, 908))
    /\ h.film_info # << >> =>
         /\ h.film_info[1].format = strip(SubSeq(input, 1037, 1068))
         /\ h.film_info[1].slate_info = strip(SubSeq(input, 1109, 1308))

\* each section ends at its fixed offset whatever its text fields hold
SectionsAligned ==
    /\ pc = "image_info" => i = 192
    /\ pc = "data_format_info" => i = 680
    /\ pc = "origination_info" => i = 712
    /\ pc = "film_info" => i = 1024
    /\ pc = "user_info" => i = 2048

\* C9, as claimed: a text field is its slot with only the trailing zero bytes
\* removed, leading zero bytes kept, and exactly the width is consumed.
C9_OnlyTrailingZerosRemoved ==
    /\ Returned_Header => TextFieldsAre(result.header[1], StripTrailingZeros)
    /\ SectionsAligned

\* C9, amended: a text field is its slot with the zero bytes at both ends
\* removed: leading zero bytes and trailing padding go, zero bytes between other
\* bytes stay; "v1.0" and four zero bytes decode to "v1.0"; exactly the width is
\* consumed whatever the content.
C9_ZerosRemovedAtBothEnds ==
    /\ Returned_Header =>
         /\ TextFieldsAre(result.header[1], StripZeros)
         /\ SubSeq(input, 25, 32) = << 118, 49, 46, 48, 0, 0, 0, 0 >>
               => result.header[1].file_info.version = << 118, 49, 46, 48 >>
    /\ SectionsAligned

C9_Witness ==
    /\ Returned_Header
    /\ SubSeq(input, 25, 32) = << 0, 0, 118, 49, 0, 46, 48, 0 >>
    /\ result.header[1].file_info.version = << 118, 49, 0, 46, 48 >>

\* C10: every returned header has 1 <= number_of_elements <= 8.
C10_ElementCountInRange ==
    Returned_Header =>
        /\ 1 <= result.header[1].image_info.number_of_elements
        /\ result.header[1].image_info.number_of_elements <= 8

\* the variants of the three enumerations, by code
OrientationVariants ==
    << "TopToBottomLeftToRight", "TopToBottomRightToLeft", "BottomToTopLeftToRight",
       "BottomToTopRightToLeft", "LeftToRightTopToBottom", "RightToLeftTopToBottom",
       "LeftToRightBottomToTop", "RightToLeftBottomToTop" >>
InterleaveVariants == << "Pixel", "Line", "Channel" >>
PackingVariants ==
    << "Packed", "ByteLeft", "ByteRight", "WordLeft", "WordRight", "LongWordLeft",
       "LongWordRight", "PackAsManyAsPossible" >>

VariantOf(table, code) == IF code < Len(table) THEN table[code + 1] ELSE "Undefined"

\* the entries of a table differ from each other and from Undefined
DistinctVariants(table) ==
    /\ \A a, b \in 1..Len(table) : table[a] = table[b] => a = b
    /\ \A a \in 1..Len(table) : table[a] # "Undefined"

\* the text slots of the fixed header, <<offset, width>>, and those of film info
HeaderText ==
    << << 24, 8 >>, << 32, 100 >>, << 132, 12 >>, << 144, 12 >>, << 452, 200 >>,
       << 720, 100 >>, << 820, 12 >>, << 832, 12 >>, << 844, 64 >>, << 908, 32 >>,
       << 940, 32 >> >>
FilmText == << << 1036, 32 >>, << 1076, 32 >>, << 1108, 200 >> >>

\* a slot of the table lies wholly inside buf and is not valid text
BadTextIn(table, buf) ==
    \E f \in 1..Len(table) :
        /\ table[f][1] + table[f][2] <= Len(buf)
        /\ ~from_utf8(SubSeq(buf, table[f][1] + 1, table[f][1] + table[f][2]))

\* the input declares film info and user info
DeclaredIn(buf) ==
    /\ Len(buf) >= 20
    /\ Above2048(WordBE(buf, 4))
    /\ WordBE(buf, 16) # << 0, 0, 0, 0 >>

\* the bytes a whole header takes
HeaderSizeOf(buf) == 2048 + (IF DeclaredIn(buf) THEN ToInt(WordBE(buf, 16)) ELSE 0)

\* how parse_header ends on buf: "Ok" or the error of the first field, in wire
\* order, that cannot be read.  Every field before a field that is cut short
\* lies wholly inside buf, so a bad text that lies inside comes first.
OutcomeOf(buf) ==
    IF First4(buf) # BigEndianCookie THEN "NotCineonImage"
    ELSE IF BadTextIn(HeaderText, buf) \/ (DeclaredIn(buf) /\ BadTextIn(FilmText, buf))
    THEN "StringConversion"
    ELSE IF Len(buf) < HeaderSizeOf(buf) THEN "ParserError"
    ELSE "Ok"

\* C11: an orientation, interleave or packing code never fails a decode: codes
\* 0..7, 0..2 and 0..7 map to their own distinct variant, every other byte
\* value to Undefined, and whether parse_header succeeds, and with which error
\* it fails, is settled by the rest of the input (OutcomeOf reads none of the
\* three bytes).
C11_EnumCodesNeverFail ==
    /\ DistinctVariants(OrientationVariants)
    /\ DistinctVariants(InterleaveVariants)
    /\ DistinctVariants(PackingVariants)
    /\ Returned_Header =>
         /\ result.header[1].image_info.image_orientation
               = VariantOf(OrientationVariants, input[193])
         /\ result.header[1].data_format_info.interleave
               = VariantOf(InterleaveVariants, input[681])
         /\ result.header[1].data_format_info.packing
               = VariantOf(PackingVariants, input[682])
    /\ (entry = "parse_header" /\ pc = "done") =>
         (IF result.status = "Ok" THEN "Ok" ELSE result.err) = OutcomeOf(input)

C11_Witness ==
    /\ entry = "parse_header"
    /\ result.status = "Ok"
    /\ input[193] = 255
    /\ input[681] = 3
    /\ input[682] = 7
    /\ result.header[1].image_info.image_orientation = "Undefined"
    /\ result.header[1].data_format_info.interleave = "Undefined"
    /\ result.header[1].data_format_info.packing = "PackAsManyAsPossible"

\* C13: parse_header returns a header or an error, never both, and the error is
\* that of the first step, in wire order, that fails: NotCineonImage when the
\* leading 4 bytes do not match, whatever the length; then, field by field,
\* ParserError for a field with fewer bytes left than its width and
\* StringConversion for a text field that is whole but not valid text.  The
\* sections are decoded in order, each only after the one before it.
C13_FirstFailureInWireOrder ==
    /\ (entry = "parse_header" /\ pc = "done") =>
         IF OutcomeOf(input) = "Ok"
         THEN result.status = "Ok" /\ result.header # << >> /\ result.err = ""
         ELSE result = Failed(OutcomeOf(input))
    /\ file_info # << >> => Len(input) >= 192
    /\ image_info # << >> => file_info # << >> /\ Len(input) >= 680
    /\ data_format_info # << >> => image_info # << >> /\ Len(input) >= 712
    /\ origination_info # << >> => data_format_info # << >> /\ Len(input) >= 1024
    /\ film_info # << >> => origination_info # << >> /\ Len(input) >= 2048
    /\ user_info # << >> => film_info # << >>

\* a version field that is no valid text, in a header cut after it: the text
\* failure is reported, not the truncation
C13_Witness ==
    /\ entry = "parse_header"
    /\ pc = "done"
    /\ First4(input) = BigEndianCookie
    /\ Len(input) >= 32
    /\ Len(input) < 192
    /\ ~from_utf8(SubSeq(input, 25, 32))
    /\ result = Failed("StringConversion")

\* the channel record held by the 28-byte slot at byte offset off (big-endian)
SlotChannel(buf, off) ==
    [ designator |-> << buf[off + 1], buf[off + 2] >>,
      bit_depth |-> buf[off + 3],
      pixels_per_line |-> WordBE(buf, off + 4),
      lines_per_element |-> WordBE(buf, off + 8),
      min_data |-> WordBE(buf, off + 12),
      min_quantity |-> WordBE(buf, off + 16),
      max_data |-> WordBE(buf, off + 20),
      max_quantity |-> WordBE(buf, off + 24) ]

ZeroChannel ==
    [ designator |-> << 0, 0 >>, bit_depth |-> 0,
      pixels_per_line |-> << 0, 0, 0, 0 >>, lines_per_element |-> << 0, 0, 0, 0 >>,
      min_data |-> << 0, 0, 0, 0 >>, min_quantity |-> << 0, 0, 0, 0 >>,
      max_data |-> << 0, 0, 0, 0 >>, max_quantity |-> << 0, 0, 0, 0 >> ]

Bits16(a) == NatAdd(NatMul(NatMul(Norm(a.samples), Norm(a.width)), << 16 >>), << 8 >>)
Wrapped16(a) ==
    Wrap32(NatMul(<< 2 >>,
        NatDiv(Wrap32(NatAdd(Norm(Wrap32(NatMul(NatMul(Norm(a.samples), Norm(a.width)),
                                                << 16 >>))),
                             << 8 >>)), 16)))

Depth16Call == entry = "bytes_per_row" /\ pc = "done" /\ row_args.depth = U32(16)

\* C12, as claimed: for bit depth 16 the row size is
\* 2 * ceil((samples*width*16 + 8) / 16), for every width.
C12_Depth16Ceiling ==
    Depth16Call =>
        /\ row_result[1].status = "Ok"
        /\ Norm(row_result[1].v) = NatMul(<< 2 >>, NatCeilDiv(Bits16(row_args), 16))

\* C12, amended: for bit depth 16 the row size is
\* 2 * floor((samples*width*16 + 8) / 16) = 2*samples*width, the division
\* rounding down, whenever samples*width*16 + 8 fits 32 bits; beyond that the
\* u32 computation overflows: the call aborts, or returns the expression
\* evaluated modulo 2^32.
C12_Depth16Floor ==
    Depth16Call =>
        IF Fits32(Bits16(row_args))
        THEN /\ row_result[1].status = "Ok"
             /\ Norm(row_result[1].v) = NatMul(<< 2 >>, NatDiv(Bits16(row_args), 16))
             /\ Norm(row_result[1].v)
                   = NatMul(<< 2 >>, NatMul(Norm(row_args.samples), Norm(row_args.width)))
        ELSE \/ row_result[1].status = "Panic"
             \/ row_result[1] = [ status |-> "Ok", v |-> Wrapped16(row_args) ]

C12_Witness ==
    /\ Depth16Call
    /\ row_args.samples = U32(3)
    /\ row_args.width = U32(1920)
    /\ row_result[1] = [ status |-> "Ok", v |-> U32(11520) ]

\* samples * width * depth of the header's first channel, as an exact natural
SampleBits(h) ==
    NatMul(NatMul(Norm(samples_of(h.image_info.number_of_elements)),
                  Norm(h.image_info.channel[1].pixels_per_line)),
           FromInt(h.image_info.channel[1].bit_depth))

\* C15: for every decodable header the payload size stays within 32 bits:
\* neither samples*width*depth nor lines_per_element * bytes_per_row exceeds
\* 2^32 - 1, so parse_image never aborts on a multiplication, and a returned
\* payload has the exact product of line count and row size as its length.
C15_PayloadSizeFitsU32 ==
    /\ (entry = "parse_image" /\ pc = "assembled") =>
         /\ Fits32(SampleBits(Header))
         /\ Fits32(PayloadSize(Header))
    /\ (entry = "parse_image" /\ pc = "done") =>
         /\ result.status # "Panic"
         /\ result.status = "Ok" =>
               FromInt(Len(result.pixels[1])) = PayloadSize(result.header[1])

=============================================================================
